---- MODULE Spec2Model ----
(***************************************************************************)
(* The authentication and authorization core of the startup platform       *)
(* backend: JWT bearer credentials (startup_platform/settings.py), the     *)
(* permission classes and the startup / interest views (startups/views.py) *)
(* over the users, startups and startup_interests tables.                  *)
(*                                                                         *)
(* A request is served by one of the workers in Procs.  The database runs  *)
(* in autocommit mode (settings.py DATABASES sets no ATOMIC_REQUESTS), so  *)
(* every query of a handler is a step of its own and the steps of two      *)
(* requests interleave.  Authentication reads only the users table and no  *)
(* step writes both that table and another one, so the user lookup is      *)
(* taken together with the first query of the handler.                     *)
(***************************************************************************)
EXTENDS Integers, FiniteSets, TLC

\* ------------------------------------------------------------------ bounds
MaxUsers == 2
MaxStartups == 2
MaxInterests == 2
MaxTicks == 1

\* --------------------------------------------------------------- constants
ACCESS_TOKEN_LIFETIME == 1
REFRESH_TOKEN_LIFETIME == 168

HTTP_200_OK == 200
HTTP_201_CREATED == 201
HTTP_400_BAD_REQUEST == 400
HTTP_401_UNAUTHORIZED == 401
HTTP_403_FORBIDDEN == 403
HTTP_404_NOT_FOUND == 404
HTTP_500_INTERNAL_SERVER_ERROR == 500
\* No response yet: the request was accepted and is still being served.
Pending == 0

FOUNDER == "founder"
TALENT == "talent"
Roles == {FOUNDER, TALENT}

Procs == {"p1", "p2"}
UserIds == 1..MaxUsers
StartupIds == 1..MaxStartups
\* An id that no startup ever has (a uuid the client made up).
NoSuchStartup == 0
Names == {"a", "b"}
\* A name that validate_name rejects.
BlankName == ""
\* E-mail addresses, lower case: as many as there can be users.
Emails == 1..MaxUsers
\* No address: the slot of a request that carries none.
NoEmail == 0

VARIABLES users, startups, interests, creator, nextStartupId, nextInterestId,
          now, ticks, req, last, held

vars == <<users, startups, interests, creator, nextStartupId, nextInterestId,
          now, ticks, req, last, held>>

\* ------------------------------------------------------------------ tokens
ACCESS == "access"
REFRESH == "refresh"

Lifetime(kind) ==
    IF kind = ACCESS THEN ACCESS_TOKEN_LIFETIME ELSE REFRESH_TOKEN_LIFETIME

\* RefreshToken.for_user / .access_token: the claims of a signed token.
Mint(uid, kind, iat) ==
    [sub |-> uid, kind |-> kind, exp |-> iat + Lifetime(kind), signed |-> TRUE]

\* A request without an Authorization header.
NoToken == [sub |-> 0, kind |-> "none", exp |-> 0, signed |-> FALSE]

\* The ages at which a token of a kind is looked at: just minted, one instant
\* before its expiry, at its expiry and one instant after it.
Ages(kind) == {0, Lifetime(kind) - 1, Lifetime(kind), Lifetime(kind) + 1}

\* Tick moves the clock far enough for a token of every age to exist.
TickStep == REFRESH_TOKEN_LIFETIME + 1

\* Tokens are kept by the clients, not by the server.  A client can hold any
\* token minted for a registered user at an earlier instant (login is open at
\* every instant), and can make up a token whose signature does not verify.
IssueTimes(kind) == {t \in {now - a : a \in Ages(kind)} : t >= 0}

ClientTokens ==
    {Mint(u, ACCESS, t) : u \in DOMAIN users, t \in IssueTimes(ACCESS)}
    \cup {Mint(u, REFRESH, t) : u \in DOMAIN users, t \in IssueTimes(REFRESH)}
    \cup {[Mint(u, ACCESS, now) EXCEPT !.signed = FALSE] : u \in UserIds}
    \cup {NoToken}

\* Verification that never looks at exp.
VerifyNoExpiry(tok, kind) ==
    IF ~tok.signed THEN "invalid"
    ELSE IF tok.kind # kind THEN "wrong_type"
    ELSE "ok"

\* Verification that never looks at the token type.
VerifyAnyKind(tok, kind) ==
    IF ~tok.signed THEN "invalid"
    ELSE IF tok.exp <= now THEN "expired"
    ELSE "ok"

\* Verification that still accepts a token at the instant exp names.
VerifyLate(tok, kind) ==
    IF ~tok.signed THEN "invalid"
    ELSE IF tok.exp < now THEN "expired"
    ELSE IF tok.kind # kind THEN "wrong_type"
    ELSE "ok"

\* Token.__init__ of the configured token class: signature, then exp, then type.
Verify(tok, kind) ==
    IF ~tok.signed THEN "invalid"
    ELSE IF tok.exp <= now THEN "expired"
    ELSE IF tok.kind # kind THEN "wrong_type"
    ELSE "ok"

\* JWTAuthentication.authenticate: no header, a token that does not verify as
\* an access token, then get_user: the user row by id, and its is_active.
AuthResult(tok) ==
    IF tok = NoToken THEN "none"
    ELSE IF Verify(tok, ACCESS) # "ok" THEN Verify(tok, ACCESS)
    ELSE IF tok.sub \notin DOMAIN users THEN "no_user"
    ELSE IF ~users[tok.sub].is_active THEN "inactive"
    ELSE "ok"

\* request.user: the id of the authenticated user, 0 for an anonymous request.
Authenticate(tok) == IF AuthResult(tok) = "ok" THEN tok.sub ELSE 0

\* ------------------------------------------------------------- permissions
\* rest_framework.permissions.IsAuthenticated.has_permission
IsAuthenticated(uid) == uid # 0

\* A permission that lets a principal of every role through.
IsTalentOff(uid) == IsAuthenticated(uid)

\* IsTalent.has_permission
IsTalent(uid) == IsAuthenticated(uid) /\ users[uid].role = TALENT

\* IsFounderAndOwner.has_permission
IsFounder(uid) == IsAuthenticated(uid) /\ users[uid].role = FOUNDER

\* An object permission that lets every principal write.
IsOwnerOff(uid, sid) == TRUE

\* IsOwnerOrReadOnly.has_object_permission for a write method, and
\* IsFounderAndOwner.has_object_permission
IsOwner(uid, sid) == startups[sid].owner = uid

\* ------------------------------------------------------------------ tables
StartupExists(sid) == sid \in DOMAIN startups

\* StartupInterest.objects.filter(user=..., startup=...) on a table.
RowsOf(table, uid, sid) == {i \in table : i.user = uid /\ i.startup = sid}

InterestRows(uid, sid) == RowsOf(interests, uid, sid)

\* startup_interests without its unique constraint.
UniqueViolationOff(uid, sid) == FALSE

\* unique_together = ['user', 'startup']
UniqueViolation(uid, sid) == InterestRows(uid, sid) # {}

\* startup_interests without the foreign key constraint on startup.
ForeignKeyViolationOff(sid) == FALSE

\* ForeignKey(Startup): the referenced row must exist when the row is written.
ForeignKeyViolation(sid) == ~StartupExists(sid)

Remove(f, k) == [x \in DOMAIN f \ {k} |-> f[x]]

\* ---------------------------------------------------------------- requests
\* A worker: where it is in its handler, request.user, the url's startup_id,
\* the owner of the instance get_object fetched, the validated name, the
\* primary key of the interest row fetched, and the validated e-mail and role
\* of a registration.
Idle == [pc |-> "idle", uid |-> 0, sid |-> 0, owner |-> 0, name |-> "", pk |-> 0,
         email |-> NoEmail, role |-> "none"]

\* A request body for a startup: the name, and an owner field that a client
\* adds, naming any user id; the serializers list no owner field.
Bodies == [name : Names \cup {BlankName}, owner : UserIds]

\* An exchange: the operation, whether this step received the request (and
\* tok is the credential it carried), the result of authenticating it, the
\* principal, the startup named, the status answered (Pending: none yet) and
\* principal and the role the request saw it have (request.user.role), the
\* startup named, the status answered (Pending: none yet) and the response
\* body: the tokens, the ids of the startups and the interest rows in it.
\* For a registration and a login: the address of the body and whether its
\* password passes (it equals password_confirm, it is the password of the
\* user), and for a registration role is the role the body asks for.
NoEvent == [op |-> "none", recv |-> FALSE, tok |-> NoToken, auth |-> "none",
            uid |-> 0, role |-> "none", sid |-> 0, status |-> Pending,
            tokens |-> {}, listed |-> {}, rows |-> {},
            email |-> NoEmail, password_ok |-> TRUE]

\* request.user.role: the role of the user row that authentication loaded.
RoleOf(uid) == IF uid \in DOMAIN users THEN users[uid].role ELSE "none"

Received(op, tok, uid, sid, status) ==
    [op |-> op, recv |-> TRUE, tok |-> tok, auth |-> AuthResult(tok),
     uid |-> uid, role |-> RoleOf(uid), sid |-> sid, status |-> status,
     tokens |-> {}, listed |-> {}, rows |-> {},
     email |-> NoEmail, password_ok |-> TRUE]

Answered(p, op, status) ==
    [op |-> op, recv |-> FALSE, tok |-> NoToken, auth |-> "ok",
     uid |-> req[p].uid, role |-> RoleOf(req[p].uid), sid |-> req[p].sid,
     status |-> status, tokens |-> {}, listed |-> {}, rows |-> {},
     email |-> req[p].email, password_ok |-> TRUE]

\* last is the exchange under observation.  A behaviour records the exchange
\* of one step of its choice and is followed up to there; the steps before it
\* run unrecorded, so every exchange of every reachable state is recorded in
\* some behaviour.
Observed == last # NoEvent

\* held is a token a client keeps, with the user and the role it stands for:
\* the access token of a registration or login response with the user of that
\* response, or the token of an authenticated request with its principal.
\* Nothing is kept where held starts as HeldOff.
NoHeld == [how |-> "none", tok |-> NoToken, uid |-> 0, role |-> "none"]

HeldOff == [NoHeld EXCEPT !.how = "off"]

\* What the client can keep of an exchange.
Kept(event) ==
    IF held # NoHeld THEN {}
    ELSE {[how |-> "issued", tok |-> t, uid |-> event.uid, role |-> event.role] :
             t \in {x \in event.tokens : x.kind = ACCESS /\ event.op # "token_refresh"}}
         \cup {[how |-> "verified", tok |-> event.tok, uid |-> event.uid,
                role |-> event.role] :
                  x \in {y \in {event} : y.recv /\ y.tok # NoToken /\ y.auth = "ok"
                                          /\ y.op \notin {"token_refresh", "login",
                                                          "register"}}}

Observe(event) ==
    \/ last' = event /\ held' = held
    \/ last' = NoEvent /\ held' \in {held} \cup Kept(event)

\* A step that answers nothing.
Silent == last' = NoEvent /\ held' = held

Init ==
    /\ users = <<>>
    /\ startups = <<>>
    /\ interests = {}
    /\ creator = <<>>
    /\ nextStartupId = 1
    /\ nextInterestId = 1
    /\ now = 0
    /\ ticks = 0
    /\ req = [p \in Procs |-> Idle]
    /\ last = NoEvent
    /\ held = HeldOff

\* The same start with a client that keeps a token.
InitAdmin ==
    /\ users = <<>>
    /\ startups = <<>>
    /\ interests = {}
    /\ creator = <<>>
    /\ nextStartupId = 1
    /\ nextInterestId = 1
    /\ now = 0
    /\ ticks = 0
    /\ req = [p \in Procs |-> Idle]
    /\ last = NoEvent
    /\ held = NoHeld

\* RefreshToken.for_user(user): the pair returned by register and login.
TokenPair(uid) == {Mint(uid, ACCESS, now), Mint(uid, REFRESH, now)}

\* A request is answered by the step that received it: the worker stays idle.
Answer(p, op, tok, uid, sid, status) ==
    /\ Observe(Received(op, tok, uid, sid, status))
    /\ UNCHANGED req

\* A request is accepted and goes on at pc.
Accept(p, op, tok, uid, sid, pc, name) ==
    /\ Observe(Received(op, tok, uid, sid, Pending))
    /\ req' = [req EXCEPT ![p] = [pc |-> pc, uid |-> uid, sid |-> sid,
                                  owner |-> IF pc \in {"update_save", "delete_startup"}
                                            THEN startups[sid].owner ELSE 0,
                                  name |-> name, pk |-> 0,
                                  email |-> NoEmail, role |-> "none"]]

\* The request of worker p is answered and the worker is idle again.
Finish(p, op, status) ==
    /\ Observe(Answered(p, op, status))
    /\ req' = [req EXCEPT ![p] = Idle]

\* User.objects.filter(email=...): the user of an address, 0 when there is none.
UserOfEmail(email) ==
    IF \E u \in DOMAIN users : users[u].email = email
    THEN CHOOSE u \in DOMAIN users : users[u].email = email
    ELSE 0

\* validate_email: the address belongs to a stored user.
EmailTaken(email) == UserOfEmail(email) # 0

\* Registrations that passed validation and have not inserted yet.
RegistrationsInFlight == {q \in Procs : req[q].pc = "register_save"}

\* The addresses a client names: that of every stored user and the first
\* address of no stored user.  Which unused address a client picks makes no
\* difference, and two registrations in flight differ from one after the
\* other only when they name the same address.
ClientEmails ==
    LET used == {users[u].email : u \in DOMAIN users}
        free == Emails \ used
    IN used \cup {e \in free : \A f \in free : e <= f}

\* A registration body: the address, the role, whether password_confirm
\* equals password, and the full name.
RegisterBodies == [email : Emails, role : Roles, passwords_match : BOOLEAN,
                   full_name : {"a"}]

\* A view under AllowAny: perform_authentication still runs the default
\* JWTAuthentication, which refuses a bearer token it cannot accept.
AllowAnyStatus(tok) ==
    IF AuthResult(tok) \in {"none", "ok"} THEN Pending ELSE HTTP_401_UNAUTHORIZED

\* A registration that does not look for the address among the users.
RegisterStatusAnyEmail(body) ==
    IF ~body.passwords_match THEN HTTP_400_BAD_REQUEST ELSE Pending

\* UserRegistrationSerializer.is_valid: validate_email, then validate.
RegisterStatus(body) ==
    IF EmailTaken(body.email) THEN HTTP_400_BAD_REQUEST
    ELSE IF ~body.passwords_match THEN HTTP_400_BAD_REQUEST
    ELSE Pending

\* register_view up to is_valid.
Register(p, tok, body) ==
    /\ ~Observed
    /\ req[p].pc = "idle"
    /\ body.email \in ClientEmails
    /\ LET status == IF AllowAnyStatus(tok) # Pending THEN AllowAnyStatus(tok)
                     ELSE RegisterStatus(body)
           event == [Received("register", tok, 0, 0, status)
                        EXCEPT !.email = body.email, !.role = body.role,
                               !.password_ok = body.passwords_match]
       IN IF status = Pending
          THEN /\ Cardinality(DOMAIN users) + Cardinality(RegistrationsInFlight)
                     < MaxUsers
               /\ Observe(event)
               /\ req' = [req EXCEPT ![p] = [Idle EXCEPT !.pc = "register_save",
                                                         !.email = body.email,
                                                         !.role = body.role,
                                                         !.name = body.full_name]]
          ELSE /\ Observe(event)
               /\ UNCHANGED req
    /\ UNCHANGED <<users, startups, interests, creator, nextStartupId,
                   nextInterestId, now, ticks>>

\* UserRegistrationSerializer.create: the row create_user inserts.
NewUser(p) ==
    [role |-> req[p].role, is_active |-> TRUE, email |-> req[p].email,
     full_name |-> req[p].name]

\* serializer.save() and RefreshToken.for_user: the INSERT, refused by the
\* unique constraint of email when the address was taken meanwhile (the
\* IntegrityError is not handled), and the tokens of the new user.
RegisterSave(p) ==
    /\ ~Observed
    /\ req[p].pc = "register_save"
    /\ IF EmailTaken(req[p].email)
       THEN /\ Finish(p, "register", HTTP_500_INTERNAL_SERVER_ERROR)
            /\ UNCHANGED users
       ELSE LET uid == Cardinality(DOMAIN users) + 1 IN
            /\ users' = users @@ (uid :> NewUser(p))
            /\ Observe([Answered(p, "register", HTTP_201_CREATED) EXCEPT
                           !.uid = uid, !.role = req[p].role,
                           !.tokens = TokenPair(uid)])
            /\ req' = [req EXCEPT ![p] = Idle]
    /\ UNCHANGED <<startups, interests, creator, nextStartupId, nextInterestId,
                   now, ticks>>

\* A login that asks for the address only.
LoginStatusAnyPassword(uid, password_ok) ==
    IF uid \in DOMAIN users /\ users[uid].is_active
    THEN HTTP_200_OK ELSE HTTP_400_BAD_REQUEST

\* UserLoginSerializer.validate: authenticate() finds the user of the e-mail
\* with a matching password, and only an active one.
LoginStatus(uid, password_ok) ==
    IF uid \in DOMAIN users /\ password_ok /\ users[uid].is_active
    THEN HTTP_200_OK ELSE HTTP_400_BAD_REQUEST

\* login_view: the tokens of the user whose credentials were given.
Login(p, tok, email, password_ok) ==
    /\ ~Observed
    /\ req[p].pc = "idle"
    /\ LET uid == UserOfEmail(email) IN
        IF AllowAnyStatus(tok) # Pending
        THEN Observe([Received("login", tok, 0, 0, AllowAnyStatus(tok))
                         EXCEPT !.email = email, !.password_ok = password_ok])
        ELSE IF LoginStatus(uid, password_ok) = HTTP_200_OK
        THEN Observe([Received("login", tok, uid, 0, HTTP_200_OK)
                         EXCEPT !.tokens = TokenPair(uid), !.email = email,
                                !.password_ok = password_ok])
        ELSE Observe([Received("login", tok, 0, 0, HTTP_400_BAD_REQUEST)
                         EXCEPT !.email = email, !.password_ok = password_ok])
    /\ UNCHANGED <<users, startups, interests, creator, nextStartupId,
                   nextInterestId, now, ticks, req>>

\* UserAdmin: an administrator changes the role of a user.
AdminSetRole(uid, role) ==
    /\ ~Observed
    /\ uid \in DOMAIN users
    /\ users[uid].role # role
    /\ users' = [users EXCEPT ![uid].role = role]
    /\ Silent
    /\ UNCHANGED <<startups, interests, creator, nextStartupId, nextInterestId,
                   now, ticks, req>>

\* UserAdmin: an administrator deactivates or reactivates a user.
AdminSetActive(uid, active) ==
    /\ ~Observed
    /\ uid \in DOMAIN users
    /\ users[uid].is_active # active
    /\ users' = [users EXCEPT ![uid].is_active = active]
    /\ Silent
    /\ UNCHANGED <<startups, interests, creator, nextStartupId, nextInterestId,
                   now, ticks, req>>

\* TokenRefreshView: the status of a refresh with the token in the body.
RefreshStatus(tok) ==
    IF tok = NoToken THEN HTTP_400_BAD_REQUEST
    ELSE IF Verify(tok, REFRESH) # "ok" THEN HTTP_401_UNAUTHORIZED
    ELSE HTTP_200_OK

\* A refresh that hands out a new refresh token with the access token.
RefreshTokensRotated(tok) ==
    {Mint(tok.sub, ACCESS, now), Mint(tok.sub, REFRESH, now)}

\* TokenRefreshSerializer.validate: the body of a successful refresh.
RefreshTokens(tok) == {Mint(tok.sub, ACCESS, now)}

\* POST /api/auth/token/refresh/: a new access token for the subject of a
\* valid refresh token; ROTATE_REFRESH_TOKENS is off.
Refresh(p, tok) ==
    /\ ~Observed
    /\ req[p].pc = "idle"
    /\ Observe([Received("token_refresh", tok, 0, 0, RefreshStatus(tok)) EXCEPT
                   !.auth = IF tok = NoToken THEN "none" ELSE Verify(tok, REFRESH),
                   !.tokens = IF RefreshStatus(tok) = HTTP_200_OK
                              THEN RefreshTokens(tok) ELSE {}])
    /\ UNCHANGED <<users, startups, interests, creator, nextStartupId,
                   nextInterestId, now, ticks, req>>

\* The clock moves on.
Tick ==
    /\ ~Observed
    /\ ticks < MaxTicks
    /\ now' = now + TickStep
    /\ ticks' = ticks + 1
    /\ Silent
    /\ UNCHANGED <<users, startups, interests, creator, nextStartupId,
                   nextInterestId, req>>

\* ------------------------------------------------------ startups/views.py
\* The status of POST without the role test of perform_create.
CreateStartupStatusAnyRole(uid, body) ==
    IF ~IsAuthenticated(uid) THEN HTTP_401_UNAUTHORIZED
    ELSE IF body.name = BlankName THEN HTTP_400_BAD_REQUEST
    ELSE HTTP_201_CREATED

\* StartupListCreateView.create with perform_create: the status of POST.
CreateStartupStatus(uid, body) ==
    IF ~IsAuthenticated(uid) THEN HTTP_401_UNAUTHORIZED
    ELSE IF body.name = BlankName THEN HTTP_400_BAD_REQUEST
    ELSE IF users[uid].role # FOUNDER THEN HTTP_403_FORBIDDEN
    ELSE HTTP_201_CREATED

\* A startup whose owner is read from the request body.
NewStartupFromBody(uid, body) == [owner |-> body.owner, name |-> body.name]

\* serializer.save(owner=self.request.user) with StartupCreateSerializer.
NewStartup(uid, body) == [owner |-> uid, name |-> body.name]

\* POST /api/startups/: validation, the role check and the INSERT.
CreateStartup(p, tok, body) ==
    /\ ~Observed
    /\ req[p].pc = "idle"
    /\ LET uid == Authenticate(tok)
           status == CreateStartupStatus(uid, body)
           sid == nextStartupId
       IN IF status = HTTP_201_CREATED
          THEN /\ nextStartupId <= MaxStartups
               /\ startups' = startups @@ (sid :> NewStartup(uid, body))
               /\ creator' = creator @@ (sid :> uid)
               /\ nextStartupId' = nextStartupId + 1
               /\ Accept(p, "create_startup", tok, uid, sid, "cs_reread", "")
          ELSE /\ Answer(p, "create_startup", tok, uid, NoSuchStartup, status)
               /\ UNCHANGED <<startups, creator, nextStartupId>>
    /\ UNCHANGED <<users, interests, nextInterestId, now, ticks>>

\* create: Startup.objects.get(id=serializer.instance.id) for the response;
\* DoesNotExist is not handled.
CsReread(p) ==
    /\ ~Observed
    /\ req[p].pc = "cs_reread"
    /\ IF StartupExists(req[p].sid)
       THEN Finish(p, "create_startup", HTTP_201_CREATED)
       ELSE Finish(p, "create_startup", HTTP_500_INTERNAL_SERVER_ERROR)
    /\ UNCHANGED <<users, startups, interests, creator, nextStartupId,
                   nextInterestId, now, ticks>>

\* An object lookup that answers a missing startup like one owned by another.
WriteObjectStatusLeaky(uid, sid) ==
    IF ~IsAuthenticated(uid) THEN HTTP_401_UNAUTHORIZED
    ELSE IF ~StartupExists(sid) \/ ~IsOwner(uid, sid) THEN HTTP_403_FORBIDDEN
    ELSE Pending

\* StartupDetailView.get_object for PUT, PATCH and DELETE: the lookup, then
\* IsOwnerOrReadOnly on the row found.
WriteObjectStatus(uid, sid) ==
    IF ~IsAuthenticated(uid) THEN HTTP_401_UNAUTHORIZED
    ELSE IF ~StartupExists(sid) THEN HTTP_404_NOT_FOUND
    ELSE IF ~IsOwner(uid, sid) THEN HTTP_403_FORBIDDEN
    ELSE Pending

\* StartupDetailView.update up to is_valid.
UpdateStartupStatus(uid, sid, body) ==
    IF WriteObjectStatus(uid, sid) # Pending THEN WriteObjectStatus(uid, sid)
    ELSE IF body.name = BlankName THEN HTTP_400_BAD_REQUEST
    ELSE Pending

\* PUT/PATCH /api/startups/<id>/: get_object and validation.
StartUpdateStartup(p, tok, sid, body) ==
    /\ ~Observed
    /\ req[p].pc = "idle"
    /\ LET uid == Authenticate(tok)
           status == UpdateStartupStatus(uid, sid, body)
       IN IF status = Pending
          THEN Accept(p, "update_startup", tok, uid, sid, "update_save", body.name)
          ELSE Answer(p, "update_startup", tok, uid, sid, status)
    /\ UNCHANGED <<users, startups, interests, creator, nextStartupId,
                   nextInterestId, now, ticks>>

\* perform_update with StartupUpdateSerializer: the fetched instance with the
\* validated name.
SavedStartup(p) == [owner |-> req[p].owner, name |-> req[p].name]

\* Model.save(): the row is updated, and inserted when it is gone.
UpdateSave(p) ==
    /\ ~Observed
    /\ req[p].pc = "update_save"
    /\ startups' = [x \in DOMAIN startups \cup {req[p].sid} |->
                       IF x = req[p].sid THEN SavedStartup(p) ELSE startups[x]]
    /\ Finish(p, "update_startup", HTTP_200_OK)
    /\ UNCHANGED <<users, interests, creator, nextStartupId, nextInterestId,
                   now, ticks>>

\* A delete that clears the interests of the startup before the owner check.
StartDeleteStartupEager(p, tok, sid) ==
    /\ ~Observed
    /\ req[p].pc = "idle"
    /\ interests' = interests \ {i \in interests : i.startup = sid}
    /\ LET uid == Authenticate(tok)
           status == WriteObjectStatus(uid, sid)
       IN IF status = Pending
          THEN Accept(p, "delete_startup", tok, uid, sid, "delete_startup", "")
          ELSE Answer(p, "delete_startup", tok, uid, sid, status)
    /\ UNCHANGED <<users, startups, creator, nextStartupId,
                   nextInterestId, now, ticks>>

\* DELETE /api/startups/<id>/: get_object.
StartDeleteStartup(p, tok, sid) ==
    /\ ~Observed
    /\ req[p].pc = "idle"
    /\ LET uid == Authenticate(tok)
           status == WriteObjectStatus(uid, sid)
       IN IF status = Pending
          THEN Accept(p, "delete_startup", tok, uid, sid, "delete_startup", "")
          ELSE Answer(p, "delete_startup", tok, uid, sid, status)
    /\ UNCHANGED <<users, startups, interests, creator, nextStartupId,
                   nextInterestId, now, ticks>>

\* on_delete=CASCADE of StartupInterest.startup: the rows deleted with a startup.
Cascade(sid) == {i \in interests : i.startup = sid}

\* perform_destroy: the startup and its interests go in one transaction; a
\* row that is already gone is no error.
DeleteStartup(p) ==
    /\ ~Observed
    /\ req[p].pc = "delete_startup"
    /\ startups' = Remove(startups, req[p].sid)
    /\ interests' = interests \ Cascade(req[p].sid)
    /\ Finish(p, "delete_startup", HTTP_200_OK)
    /\ UNCHANGED <<users, creator, nextStartupId, nextInterestId, now, ticks>>

\* An interest view that looks the startup up before it checks the role.
InterestStatusLookupFirst(uid, sid) ==
    IF ~IsAuthenticated(uid) THEN HTTP_401_UNAUTHORIZED
    ELSE IF ~StartupExists(sid) THEN HTTP_404_NOT_FOUND
    ELSE IF ~IsTalent(uid) THEN HTTP_403_FORBIDDEN
    ELSE Pending

\* The interest view with IsAuthenticated in place of IsTalent.
InterestStatusAnyRole(uid, sid) ==
    IF ~IsAuthenticated(uid) THEN HTTP_401_UNAUTHORIZED
    ELSE IF ~StartupExists(sid) THEN HTTP_404_NOT_FOUND
    ELSE Pending

\* StartupInterestCreateDestroyView: IsTalent, then get_object_or_404 as the
\* first statement of create and of destroy.
InterestStatus(uid, sid) ==
    IF ~IsAuthenticated(uid) THEN HTTP_401_UNAUTHORIZED
    ELSE IF ~IsTalent(uid) THEN HTTP_403_FORBIDDEN
    ELSE IF ~StartupExists(sid) THEN HTTP_404_NOT_FOUND
    ELSE Pending

\* Create-interest requests that may still insert a row.
CreatesInFlight ==
    Cardinality({q \in Procs : req[q].pc \in {"ci_exists", "ci_lookup", "ci_save"}})

\* POST /api/startups/<id>/interest/
StartCreateInterest(p, tok, sid) ==
    /\ ~Observed
    /\ req[p].pc = "idle"
    /\ nextInterestId + CreatesInFlight <= MaxInterests
    /\ LET uid == Authenticate(tok)
           status == InterestStatus(uid, sid)
       IN IF status = Pending
          THEN Accept(p, "create_interest", tok, uid, sid, "ci_exists", "")
          ELSE Answer(p, "create_interest", tok, uid, sid, status)
    /\ UNCHANGED <<users, startups, interests, creator, nextStartupId,
                   nextInterestId, now, ticks>>

\* create without the check for an existing interest.
CiExistsSkipped(p) ==
    /\ ~Observed
    /\ req[p].pc = "ci_exists"
    /\ req' = [req EXCEPT ![p].pc = "ci_lookup"]
    /\ Silent
    /\ UNCHANGED <<users, startups, interests, creator, nextStartupId,
                   nextInterestId, now, ticks>>

\* create: the check for an existing interest.
CiExists(p) ==
    /\ ~Observed
    /\ req[p].pc = "ci_exists"
    /\ IF InterestRows(req[p].uid, req[p].sid) # {}
       THEN Finish(p, "create_interest", HTTP_400_BAD_REQUEST)
       ELSE /\ req' = [req EXCEPT ![p].pc = "ci_lookup"]
            /\ Silent
    /\ UNCHANGED <<users, startups, interests, creator, nextStartupId,
                   nextInterestId, now, ticks>>

\* perform_create: get_object_or_404 once more.
CiLookup(p) ==
    /\ ~Observed
    /\ req[p].pc = "ci_lookup"
    /\ IF ~StartupExists(req[p].sid)
       THEN Finish(p, "create_interest", HTTP_404_NOT_FOUND)
       ELSE /\ req' = [req EXCEPT ![p].pc = "ci_save"]
            /\ Silent
    /\ UNCHANGED <<users, startups, interests, creator, nextStartupId,
                   nextInterestId, now, ticks>>

\* The constraints of startup_interests that an INSERT can break; the
\* IntegrityError is not handled by the view.
InsertRejected(uid, sid) == UniqueViolation(uid, sid) \/ ForeignKeyViolation(sid)

\* perform_create: serializer.save(user, startup).
CiSave(p) ==
    /\ ~Observed
    /\ req[p].pc = "ci_save"
    /\ IF InsertRejected(req[p].uid, req[p].sid)
       THEN /\ Finish(p, "create_interest", HTTP_500_INTERNAL_SERVER_ERROR)
            /\ UNCHANGED <<interests, nextInterestId>>
       ELSE /\ interests' = interests \cup
                  {[id |-> nextInterestId, user |-> req[p].uid, startup |-> req[p].sid]}
            /\ nextInterestId' = nextInterestId + 1
            /\ Finish(p, "create_interest", HTTP_201_CREATED)
    /\ UNCHANGED <<users, startups, creator, nextStartupId, now, ticks>>

\* DELETE /api/startups/<id>/interest/
StartDeleteInterest(p, tok, sid) ==
    /\ ~Observed
    /\ req[p].pc = "idle"
    /\ LET uid == Authenticate(tok)
           status == InterestStatus(uid, sid)
       IN IF status = Pending
          THEN Accept(p, "delete_interest", tok, uid, sid, "di_get", "")
          ELSE Answer(p, "delete_interest", tok, uid, sid, status)
    /\ UNCHANGED <<users, startups, interests, creator, nextStartupId,
                   nextInterestId, now, ticks>>

\* destroy: StartupInterest.objects.get(user, startup).
DiGet(p) ==
    /\ ~Observed
    /\ req[p].pc = "di_get"
    /\ LET rows == InterestRows(req[p].uid, req[p].sid) IN
        IF rows = {}
        THEN Finish(p, "delete_interest", HTTP_400_BAD_REQUEST)
        ELSE IF Cardinality(rows) > 1
        THEN Finish(p, "delete_interest", HTTP_500_INTERNAL_SERVER_ERROR)
        ELSE /\ \E row \in rows :
                  req' = [req EXCEPT ![p].pc = "di_delete", ![p].pk = row.id]
             /\ Silent
    /\ UNCHANGED <<users, startups, interests, creator, nextStartupId,
                   nextInterestId, now, ticks>>

\* A delete that removes every interest of the user.
DeletedRowsOfUser(p) == {i \in interests : i.user = req[p].uid}

\* interest.delete(): DELETE by primary key; deleting no row is no error.
DeletedRows(p) == {i \in interests : i.id = req[p].pk}

DiDelete(p) ==
    /\ ~Observed
    /\ req[p].pc = "di_delete"
    /\ interests' = interests \ DeletedRows(p)
    /\ Finish(p, "delete_interest", HTTP_200_OK)
    /\ UNCHANGED <<users, startups, creator, nextStartupId, nextInterestId,
                   now, ticks>>

\* The retrieval operations and their status.
ReadOps == {"list_startups", "get_startup", "my_startups", "list_interests",
            "my_interests", "me"}

\* A listing of the interests of a startup that checks the role only.
ListInterestsStatusAnyFounder(uid, sid) ==
    IF ~IsFounder(uid) THEN HTTP_403_FORBIDDEN
    ELSE IF ~StartupExists(sid) THEN HTTP_404_NOT_FOUND
    ELSE HTTP_200_OK

\* StartupInterestsListView: IsFounderAndOwner.has_permission, then
\* get_object_or_404 and check_object_permissions in get_queryset.
ListInterestsStatus(uid, sid) ==
    IF ~IsFounder(uid) THEN HTTP_403_FORBIDDEN
    ELSE IF ~StartupExists(sid) THEN HTTP_404_NOT_FOUND
    ELSE IF ~IsOwner(uid, sid) THEN HTTP_403_FORBIDDEN
    ELSE HTTP_200_OK

ReadStatus(op, uid, sid) ==
    IF ~IsAuthenticated(uid) THEN HTTP_401_UNAUTHORIZED
    ELSE IF op = "get_startup"
    THEN IF StartupExists(sid) THEN HTTP_200_OK ELSE HTTP_404_NOT_FOUND
    ELSE IF op = "my_interests"
    THEN IF IsTalent(uid) THEN HTTP_200_OK ELSE HTTP_403_FORBIDDEN
    ELSE IF op = "list_interests" THEN ListInterestsStatus(uid, sid)
    ELSE HTTP_200_OK

\* A list of startups narrowed to those of the requesting user.
StartupsListedOwn(uid) == {sid \in DOMAIN startups : startups[sid].owner = uid}

\* StartupListCreateView.get_queryset without query parameters.
StartupsListed(uid) == DOMAIN startups

\* A listing of the startups of every owner.
MyStartupsListedAll(uid) == DOMAIN startups

\* MyStartupsView.get_queryset: Startup.objects.filter(owner=request.user).
MyStartupsListed(uid) == {sid \in DOMAIN startups : startups[sid].owner = uid}

\* StartupInterestsListView.get_queryset: filter(startup=startup).
InterestsListed(sid) == {i \in interests : i.startup = sid}

\* MyInterestsView.get_queryset: filter(user=request.user).
MyInterestsListed(uid) == {i \in interests : i.user = uid}

\* The startups in the body of a successful retrieval.
ReadListed(op, uid, sid) ==
    IF op = "list_startups" THEN StartupsListed(uid)
    ELSE IF op = "my_startups" THEN MyStartupsListed(uid)
    ELSE IF op = "get_startup" THEN {sid}
    ELSE {}

\* The interest rows in the body of a successful retrieval.
ReadRows(op, uid, sid) ==
    IF op = "list_interests" THEN InterestsListed(sid)
    ELSE IF op = "my_interests" THEN MyInterestsListed(uid)
    ELSE {}

\* The retrieval operations that name a startup in the URL.
HasStartupId(op) == op \in {"get_startup", "list_interests"}

\* A GET: the permission checks and the query are taken as one step.
Read(p, tok, op, sid) ==
    /\ ~Observed
    /\ req[p].pc = "idle"
    /\ HasStartupId(op) \/ sid = NoSuchStartup
    /\ LET uid == Authenticate(tok)
           status == ReadStatus(op, uid, sid)
       IN Observe([Received(op, tok, uid, sid, status) EXCEPT
                      !.listed = IF status = HTTP_200_OK
                                 THEN ReadListed(op, uid, sid) ELSE {},
                      !.rows = IF status = HTTP_200_OK
                               THEN ReadRows(op, uid, sid) ELSE {}])
    /\ UNCHANGED <<users, startups, interests, creator, nextStartupId,
                   nextInterestId, now, ticks, req>>

\* A body of PUT/PATCH /api/auth/me/: the full name, a role that the client
\* adds (UserUpdateSerializer lists no such field), and whether skills is a
\* list.
MeBodies == [full_name : Names, role : Roles, skills_is_list : BOOLEAN]

\* me_view for PUT and PATCH: IsAuthenticated, then is_valid.
MeUpdateStatus(uid, body) ==
    IF ~IsAuthenticated(uid) THEN HTTP_401_UNAUTHORIZED
    ELSE IF ~body.skills_is_list THEN HTTP_400_BAD_REQUEST
    ELSE HTTP_200_OK

\* An update that takes the role too, as the fields of UserProfileSerializer
\* would.
MeUpdatedWithRole(row, body) ==
    [row EXCEPT !.full_name = body.full_name, !.role = body.role]

\* UserUpdateSerializer.update: the fields of Meta.fields are set on the
\* instance; full_name stands for the four of them.
MeUpdated(row, body) == [row EXCEPT !.full_name = body.full_name]

\* PUT/PATCH /api/auth/me/: serializer.save() writes the row of request.user.
\* With one request at a time the row that authentication loaded is the
\* stored one, and the load and the save are one step.
MeUpdate(p, tok, body) ==
    /\ ~Observed
    /\ req[p].pc = "idle"
    /\ LET uid == Authenticate(tok)
           status == MeUpdateStatus(uid, body)
       IN /\ users' = IF status = HTTP_200_OK
                      THEN [users EXCEPT ![uid] = MeUpdated(users[uid], body)]
                      ELSE users
          /\ Answer(p, "me_update", tok, uid, NoSuchStartup, status)
    /\ UNCHANGED <<startups, interests, creator, nextStartupId, nextInterestId,
                   now, ticks>>

\* The startup ids a client can name: the ids handed out, and a made-up one.
KnownIds == (1..(nextStartupId - 1)) \cup {NoSuchStartup}

Request(p) ==
    \/ ~Observed /\ \E tok \in ClientTokens : \E body \in Bodies :
          CreateStartup(p, tok, body)
    \/ ~Observed /\ \E tok \in ClientTokens : \E sid \in KnownIds :
          \E body \in Bodies : StartUpdateStartup(p, tok, sid, body)
    \/ ~Observed /\ \E tok \in ClientTokens : \E sid \in KnownIds :
          StartDeleteStartup(p, tok, sid)
    \/ ~Observed /\ \E tok \in ClientTokens : \E sid \in KnownIds :
          StartCreateInterest(p, tok, sid)
    \/ ~Observed /\ \E tok \in ClientTokens : \E sid \in KnownIds :
          StartDeleteInterest(p, tok, sid)
    \/ ~Observed /\ \E tok \in ClientTokens : \E op \in ReadOps :
          \E sid \in KnownIds : Read(p, tok, op, sid)
    \/ ~Observed /\ \E tok \in ClientTokens : Refresh(p, tok)
    \/ ~Observed /\ \E tok \in ClientTokens : \E email \in Emails :
          \E password_ok \in BOOLEAN : Login(p, tok, email, password_ok)

Step(p) ==
    \/ CsReread(p)
    \/ UpdateSave(p)
    \/ DeleteStartup(p)
    \/ CiExists(p)
    \/ CiLookup(p)
    \/ CiSave(p)
    \/ DiGet(p)
    \/ DiDelete(p)
    \/ RegisterSave(p)

\* Requests served concurrently, at one instant of the clock.
Next ==
    \E p \in Procs :
        \/ ~Observed /\ \E tok \in ClientTokens : \E body \in RegisterBodies :
              Register(p, tok, body)
        \/ Request(p)
        \/ Step(p)

Spec == Init /\ [][Next]_vars

\* One worker, one request at a time, and a clock that moves.
Worker == CHOOSE p \in Procs : TRUE

NextSeq ==
    \/ Tick
    \/ ~Observed /\ \E tok \in ClientTokens : \E body \in RegisterBodies :
          Register(Worker, tok, body)
    \/ Request(Worker)
    \/ Step(Worker)

SpecSeq == Init /\ [][NextSeq]_vars

\* Registration, login and retrieval one request at a time, an administrator
\* who edits users, and a client that keeps a token.
NextAdmin ==
    \/ Tick
    \/ ~Observed /\ \E tok \in ClientTokens : \E body \in RegisterBodies :
          Register(Worker, tok, body)
    \/ ~Observed /\ \E tok \in ClientTokens : \E email \in Emails :
          \E password_ok \in BOOLEAN : Login(Worker, tok, email, password_ok)
    \/ ~Observed /\ \E tok \in ClientTokens : \E op \in ReadOps :
          \E sid \in KnownIds : Read(Worker, tok, op, sid)
    \/ ~Observed /\ \E uid \in UserIds : \E role \in Roles :
          AdminSetRole(uid, role)
    \/ ~Observed /\ \E uid \in UserIds : \E active \in BOOLEAN :
          AdminSetActive(uid, active)
    \/ RegisterSave(Worker)

SpecAdmin == InitAdmin /\ [][NextAdmin]_vars

\* Every operation of the API, me update among them, one request at a time
\* at one instant of the clock.
NextApi ==
    \/ ~Observed /\ \E tok \in ClientTokens : \E body \in RegisterBodies :
          Register(Worker, tok, body)
    \/ Request(Worker)
    \/ Step(Worker)
    \/ ~Observed /\ \E tok \in ClientTokens : \E body \in MeBodies :
          MeUpdate(Worker, tok, body)

SpecApi == Init /\ [][NextApi]_vars
\* ------------------------------------------------------------------ claims
\* C1: in every reachable state, under every interleaving of create-interest,
\* delete-interest, create-startup and delete-startup requests, there is at
\* most one StartupInterest row for each (user, startup) pair.
C1_OneInterestPerPair ==
    \A u \in UserIds : \A s \in StartupIds : Cardinality(InterestRows(u, s)) <= 1

\* A second INSERT for a pair that has its row was attempted and refused.
C1_Witness ==
    /\ last.op = "create_interest"
    /\ last.status = HTTP_500_INTERNAL_SERVER_ERROR
    /\ StartupExists(last.sid)
    /\ Cardinality(InterestRows(last.uid, last.sid)) = 1

\* C2: when two create-interest requests of one TALENT for one existing
\* startup both pass the existence check before either inserts, one of them
\* inserts the row and answers 201 and the other is answered with the
\* duplicate conflict, 400, and with no other failure.
C2_RaceLoserGetsConflict ==
    [][\A p \in Procs :
          (/\ req[p].pc = "ci_save"
           /\ req'[p].pc = "idle"
           /\ StartupExists(req[p].sid)
           /\ Observed')
          => IF InterestRows(req[p].uid, req[p].sid) = {}
             THEN /\ last'.status = HTTP_201_CREATED
                  /\ Cardinality(RowsOf(interests', req[p].uid, req[p].sid)) = 1
             ELSE /\ last'.status = HTTP_400_BAD_REQUEST
                  /\ UNCHANGED interests]_vars
\* C3: with one request at a time, the key (user, startup) of a TALENT and an
\* existing startup is a two-state machine: create answers 201 exactly when
\* the key is absent and makes it present, create on a present key answers 400
\* and leaves it present, delete answers 200 exactly when the key is present
\* and makes it absent, delete on an absent key answers 400 and leaves it absent.
C3_InterestKeyMachine ==
    [][\A p \in Procs :
          LET before == RowsOf(interests, req[p].uid, req[p].sid) # {}
              after == RowsOf(interests', req[p].uid, req[p].sid) # {}
          IN /\ (/\ req[p].pc \in {"ci_exists", "ci_lookup", "ci_save"}
                 /\ req'[p].pc = "idle"
                 /\ Observed')
                => /\ after
                   /\ last'.status = IF before THEN HTTP_400_BAD_REQUEST
                                      ELSE HTTP_201_CREATED
             /\ (/\ req[p].pc \in {"di_get", "di_delete"}
                 /\ req'[p].pc = "idle"
                 /\ Observed')
                => /\ ~after
                   /\ last'.status = IF before THEN HTTP_200_OK
                                      ELSE HTTP_400_BAD_REQUEST]_vars

\* A delete of a key that was present once and is absent now is refused.
C3_Witness ==
    /\ last.op = "delete_interest"
    /\ ~last.recv
    /\ last.status = HTTP_400_BAD_REQUEST
    /\ StartupExists(last.sid)
    /\ nextInterestId > 1
    /\ interests = {}

\* C4: a delete-interest request for a stored startup answers success only if
\* that request removed a row, also when delete requests for one key interleave.
C4_DeleteRemovesARow ==
    [][\A p \in Procs :
          (/\ req[p].pc \in {"di_get", "di_delete"}
           /\ req'[p].pc = "idle"
           /\ req[p].sid \in DOMAIN startups
           /\ Observed'
           /\ last'.status = HTTP_200_OK)
          => RowsOf(interests', req[p].uid, req[p].sid)
                 # RowsOf(interests, req[p].uid, req[p].sid)]_vars

\* The operations that change a stored startup.
StartupWrites == {"update_startup", "delete_startup"}

\* C5: an update or a delete of an existing startup by an authenticated
\* principal is allowed if and only if the principal is its owner; any other
\* principal, whatever its role, is answered 403 and the startup stays stored
\* unchanged; a delete the owner was allowed removes the startup.
C5_OnlyOwnerWrites ==
    [][(Observed' /\ last'.op \in StartupWrites) =>
          /\ (last'.recv /\ last'.uid # 0 /\ last'.sid \in DOMAIN startups)
             => /\ (startups[last'.sid].owner = last'.uid)
                   <=> (last'.status \in {Pending, HTTP_400_BAD_REQUEST})
                /\ (startups[last'.sid].owner # last'.uid)
                   => /\ last'.status = HTTP_403_FORBIDDEN
                      /\ UNCHANGED <<startups, interests, req>>
          /\ (~last'.recv /\ last'.op = "delete_startup")
             => /\ last'.status = HTTP_200_OK
                /\ last'.sid \notin DOMAIN startups']_vars

\* A FOUNDER who does not own the startup is refused its deletion.
C5_Witness ==
    /\ last.op = "delete_startup"
    /\ last.recv
    /\ last.status = HTTP_403_FORBIDDEN
    /\ users[last.uid].role = FOUNDER
    /\ StartupExists(last.sid)
    /\ startups[last.sid].owner # last.uid

\* C6: every create-startup request of an authenticated TALENT is answered 403
\* and creates no startup, and a create-startup request without a valid
\* principal is answered 401 and creates no startup.
C6_OnlyFounderCreates ==
    [][(Observed' /\ last'.op = "create_startup") =>
          /\ (last'.uid # 0 /\ users[last'.uid].role = TALENT)
             => /\ last'.status = HTTP_403_FORBIDDEN
                /\ UNCHANGED startups
          /\ (last'.uid = 0)
             => /\ last'.status = HTTP_401_UNAUTHORIZED
                /\ UNCHANGED startups]_vars

\* C7: the owner of every stored startup is the principal whose request
\* created it, whatever owner the bodies of the create and update requests
\* name.
C7_OwnerIsCreator ==
    \A sid \in DOMAIN startups : startups[sid].owner = creator[sid]

\* A startup of one of two users has been updated and is still its creator's.
C7_Witness ==
    /\ last.op = "update_startup"
    /\ ~last.recv
    /\ last.status = HTTP_200_OK
    /\ Cardinality(DOMAIN users) = MaxUsers
    /\ StartupExists(last.sid)
    /\ startups[last.sid].owner = creator[last.sid]
    /\ startups[last.sid].name # "a"
\* The operations that require an authenticated principal.
ProtectedOps ==
    {"list_startups", "get_startup", "create_startup", "update_startup",
     "delete_startup", "create_interest", "delete_interest", "list_interests",
     "my_startups", "my_interests", "me"}

\* C8: a request to a protected operation that carries no token, a token whose
\* signature does not verify or an expired token is answered 401, whether or
\* not the resource it names exists, and changes no stored state.
C8_BadCredentialIs401 ==
    [][(/\ Observed'
        /\ last'.recv
        /\ last'.op \in ProtectedOps
        /\ \/ last'.tok = NoToken
           \/ ~last'.tok.signed
           \/ last'.tok.exp <= now)
       => /\ last'.status = HTTP_401_UNAUTHORIZED
          /\ UNCHANGED <<users, startups, interests, req>>]_vars

\* The owner of a stored startup asks for its deletion with an access token
\* that has expired.
C8_Witness ==
    /\ last.op = "delete_startup"
    /\ last.recv
    /\ last.tok.signed
    /\ last.tok.kind = ACCESS
    /\ last.tok.exp <= now
    /\ StartupExists(last.sid)
    /\ startups[last.sid].owner = last.tok.sub
    /\ last.status = HTTP_401_UNAUTHORIZED

\* C9: a token of one kind is not accepted where the other kind is required:
\* a refresh token as the bearer credential of a protected operation is
\* answered 401 and changes nothing, and an access token given to the
\* token-refresh operation is answered 401 and no token is minted.
C9_KindsNotInterchangeable ==
    [][(Observed' /\ last'.recv) =>
          /\ (last'.op \in ProtectedOps /\ last'.tok.kind = REFRESH)
             => /\ last'.status = HTTP_401_UNAUTHORIZED
                /\ UNCHANGED <<users, startups, interests, req>>
          /\ (last'.op = "token_refresh" /\ last'.tok.kind = ACCESS)
             => /\ last'.status = HTTP_401_UNAUTHORIZED
                /\ last'.tokens = {}]_vars

\* The owner of a stored startup asks for its deletion with a refresh token
\* that is signed and has not expired.
C9_Witness ==
    /\ last.op = "delete_startup"
    /\ last.recv
    /\ last.tok.signed
    /\ last.tok.kind = REFRESH
    /\ last.tok.exp > now
    /\ StartupExists(last.sid)
    /\ startups[last.sid].owner = last.tok.sub
    /\ last.status = HTTP_401_UNAUTHORIZED

\* The kind of token an operation expects.
ExpectedKind(op) == IF op = "token_refresh" THEN REFRESH ELSE ACCESS

\* C10: on the integer clock a token minted at iat expires at iat plus the
\* lifetime of its kind, and a signed token of the expected kind verifies if
\* and only if exp > now: it verifies when it is issued, and it is refused as
\* expired, with 401, at now = exp and at every later instant.
C10_VerifiesIffNotExpired ==
    /\ \A t \in last.tokens :
          t.exp = now + (IF t.kind = ACCESS THEN ACCESS_TOKEN_LIFETIME
                         ELSE REFRESH_TOKEN_LIFETIME)
    /\ (/\ last.recv
        /\ last.op \in ProtectedOps \cup {"token_refresh"}
        /\ last.tok.signed
        /\ last.tok.kind = ExpectedKind(last.op))
       => /\ (last.auth = "ok") <=> (last.tok.exp > now)
          /\ (last.tok.exp <= now)
             => /\ last.auth = "expired"
                /\ last.status = HTTP_401_UNAUTHORIZED

\* An access token is presented at the very instant of its expiry.
C10_Witness ==
    /\ last.op \in ProtectedOps
    /\ last.recv
    /\ last.tok.signed
    /\ last.tok.kind = ACCESS
    /\ last.tok.exp = now
    /\ last.auth = "expired"
    /\ last.status = HTTP_401_UNAUTHORIZED
\* C14: for an update or a delete of a startup by an authenticated principal
\* the existence check comes before the ownership check: a startup id that is
\* not stored is answered 404 for every authenticated principal, and 403 is
\* answered only for a stored startup owned by someone else.
C14_ExistenceBeforeOwnership ==
    (last.recv /\ last.op \in StartupWrites /\ last.uid # 0)
    => /\ (last.sid \notin DOMAIN startups)
          <=> (last.status = HTTP_404_NOT_FOUND)
       /\ (last.status = HTTP_403_FORBIDDEN)
          => /\ last.sid \in DOMAIN startups
             /\ startups[last.sid].owner # last.uid

\* A FOUNDER asks for the deletion of a startup that was stored once and is
\* gone, while a startup of another owner is stored.
C14_Witness ==
    /\ last.op = "delete_startup"
    /\ last.recv
    /\ last.uid # 0
    /\ last.sid # NoSuchStartup
    /\ last.sid \notin DOMAIN startups
    /\ last.status = HTTP_404_NOT_FOUND
    /\ \E sid \in DOMAIN startups : startups[sid].owner # last.uid

\* The operations on the interest of the principal in a startup.
InterestWrites == {"create_interest", "delete_interest"}

\* C15: create-interest and delete-interest are allowed only to an
\* authenticated TALENT: every such request of an authenticated FOUNDER is
\* answered 403 and neither creates nor removes an interest row.
C15_OnlyTalentWritesInterest ==
    [][(Observed' /\ last'.recv /\ last'.op \in InterestWrites /\ last'.uid # 0)
       => IF users[last'.uid].role = TALENT
          THEN last'.status \in {Pending, HTTP_404_NOT_FOUND}
          ELSE /\ last'.status = HTTP_403_FORBIDDEN
               /\ UNCHANGED <<interests, req>>]_vars

\* A FOUNDER asks to withdraw an interest in a stored startup that has one.
C15_Witness ==
    /\ last.op = "delete_interest"
    /\ last.recv
    /\ last.uid # 0
    /\ users[last.uid].role = FOUNDER
    /\ last.status = HTTP_403_FORBIDDEN
    /\ \E i \in interests : i.startup = last.sid
\* C16: listing the interests of a stored startup is allowed if and only if
\* the authenticated principal is a FOUNDER and owns the startup; a TALENT and
\* a FOUNDER who does not own it are answered 403 and get none of its interest
\* rows; the owner gets exactly its rows.
C16_OnlyOwnerListsInterests ==
    (last.recv /\ last.op = "list_interests" /\ last.uid # 0)
    => /\ (last.status = HTTP_200_OK)
          <=> /\ users[last.uid].role = FOUNDER
              /\ last.sid \in DOMAIN startups
              /\ startups[last.sid].owner = last.uid
       /\ (last.status = HTTP_200_OK)
          => last.rows = {i \in interests : i.startup = last.sid}
       /\ (\/ users[last.uid].role = TALENT
           \/ /\ last.sid \in DOMAIN startups
              /\ startups[last.sid].owner # last.uid)
          => /\ last.status = HTTP_403_FORBIDDEN
             /\ last.rows = {}

\* A TALENT asks for the interests of a stored startup that has one.
C16_Witness ==
    /\ last.op = "list_interests"
    /\ last.recv
    /\ last.uid # 0
    /\ users[last.uid].role = TALENT
    /\ last.sid \in DOMAIN startups
    /\ \E i \in interests : i.startup = last.sid
    /\ last.status = HTTP_403_FORBIDDEN
    /\ last.rows = {}

\* C17: reading startups is open to every authenticated principal whatever
\* its role and whoever owns them: the list is answered 200 with all stored
\* startups, a single stored startup is answered 200, and a read without a
\* principal is answered 401.
C17_ReadsAreOpen ==
    (last.recv /\ last.op \in {"list_startups", "get_startup"})
    => IF last.uid = 0
       THEN last.status = HTTP_401_UNAUTHORIZED /\ last.listed = {}
       ELSE IF last.op = "list_startups"
       THEN last.status = HTTP_200_OK /\ last.listed = DOMAIN startups
       ELSE IF last.sid \in DOMAIN startups
       THEN last.status = HTTP_200_OK /\ last.listed = {last.sid}
       ELSE last.status = HTTP_404_NOT_FOUND

\* A TALENT lists the startups and gets one that it cannot own.
C17_Witness ==
    /\ last.op = "list_startups"
    /\ last.recv
    /\ last.uid # 0
    /\ users[last.uid].role = TALENT
    /\ last.status = HTTP_200_OK
    /\ last.listed # {}
    /\ last.listed = DOMAIN startups

\* C18: my-startups is allowed only to an authenticated FOUNDER and
\* my-interests only to an authenticated TALENT; a principal of the other
\* role is denied.
C18_MyListingsRoleGated ==
    (last.recv /\ last.uid # 0)
    => /\ (last.op = "my_startups")
          => (last.status = HTTP_200_OK <=> users[last.uid].role = FOUNDER)
       /\ (last.op = "my_interests")
          => (last.status = HTTP_200_OK <=> users[last.uid].role = TALENT)

Denied == {HTTP_401_UNAUTHORIZED, HTTP_403_FORBIDDEN, HTTP_404_NOT_FOUND,
           HTTP_400_BAD_REQUEST}

\* C20: a denied request leaves users, startups and interests as they were;
\* startups and interests change only in a request that was allowed, and at
\* most once in a request: in the step that ends it with success, or for
\* create-startup in the step before its last one, which changes nothing.
C20_DeniedChangesNothing ==
    [][/\ (Observed' /\ last'.status \in Denied)
          => UNCHANGED <<users, startups, interests>>
       /\ (<<startups, interests>>' # <<startups, interests>>)
          => \E p \in Procs :
                \/ /\ req[p].pc = "idle"
                   /\ req'[p].pc = "cs_reread"
                \/ /\ req[p].pc \in {"update_save", "delete_startup",
                                     "ci_save", "di_delete"}
                   /\ req'[p].pc = "idle"
                   /\ last'.status \in {Pending, HTTP_200_OK, HTTP_201_CREATED}]_vars

\* A create-interest for a key that has its row ends with the conflict.
C20_Witness ==
    /\ last.op = "create_interest"
    /\ ~last.recv
    /\ last.status = HTTP_400_BAD_REQUEST
    /\ \E i \in interests : i.user = last.uid /\ i.startup = last.sid
\* C13: a valid refresh token given to the token-refresh operation yields a
\* new access token and nothing else: no refresh token is returned, nothing
\* stored changes, so the same refresh token is accepted again at every
\* instant before its own expiry.
C13_RefreshNotRotated ==
    [][(/\ Observed'
        /\ last'.op = "token_refresh"
        /\ last'.tok.signed
        /\ last'.tok.kind = REFRESH
        /\ last'.tok.exp > now)
       => /\ last'.status = HTTP_200_OK
          /\ last'.tokens = {[sub |-> last'.tok.sub, kind |-> ACCESS,
                              exp |-> now + ACCESS_TOKEN_LIFETIME,
                              signed |-> TRUE]}
          /\ UNCHANGED <<users, startups, interests, req>>]_vars

\* A refresh token is accepted one instant before its expiry.
C13_Witness ==
    /\ last.op = "token_refresh"
    /\ last.tok.signed
    /\ last.tok.kind = REFRESH
    /\ last.tok.exp = now + 1
    /\ last.status = HTTP_200_OK
    /\ \A t \in last.tokens : t.kind = ACCESS
\* C11: the access token of a registration or login response, presented
\* before it expires, yields the principal with the id and the role of the
\* user of that response, active: the request is handled as that user with
\* that role.
C11_RoundTrip ==
    (/\ held.how = "issued"
     /\ last.recv
     /\ last.op \in ProtectedOps
     /\ last.tok = held.tok
     /\ last.tok.exp > now)
    => /\ last.auth = "ok"
       /\ last.uid = held.uid
       /\ last.role = held.role

\* C12: verification depends only on the token and the clock: a token that
\* authenticated one request yields the same principal, with the same role,
\* in every later request before its expiry, also when the user record was
\* changed or deactivated in between.
C12_StatelessVerification ==
    (/\ held.how = "verified"
     /\ last.recv
     /\ last.op \in ProtectedOps
     /\ last.tok = held.tok
     /\ last.tok.exp > now)
    => /\ last.auth = "ok"
       /\ last.uid = held.uid
       /\ last.role = held.role
\* The role the permission classes of an operation ask of the principal.
RequiredRole(op) ==
    IF op \in {"create_startup", "list_interests"} THEN FOUNDER
    ELSE IF op \in {"create_interest", "delete_interest", "my_interests"} THEN TALENT
    ELSE "any"

\* The operations whose URL names a startup.
NamesStartup == {"get_startup", "update_startup", "delete_startup",
                 "create_interest", "delete_interest", "list_interests"}

\* The operations that ask the principal to own the startup named.
OwnerOnly == {"update_startup", "delete_startup", "list_interests"}

\* C21: for every operation the three denial classes have their own status: a
\* request without a principal is answered 401, an authenticated request that
\* fails the role or the ownership predicate of the operation 403, a request
\* naming a startup that is not stored 404, and no status stands for two
\* classes.
C21_DenialClassesDistinct ==
    (last.recv /\ last.op \in ProtectedOps)
    => LET roleFails == /\ last.uid # 0
                        /\ RequiredRole(last.op) \notin {"any", last.role}
           missing == /\ last.op \in NamesStartup
                      /\ last.sid \notin DOMAIN startups
           notOwner == /\ last.op \in OwnerOnly
                       /\ last.sid \in DOMAIN startups
                       /\ startups[last.sid].owner # last.uid
       IN /\ (last.uid = 0) <=> (last.status = HTTP_401_UNAUTHORIZED)
          /\ roleFails => last.status = HTTP_403_FORBIDDEN
          /\ (last.uid # 0 /\ ~roleFails /\ missing)
             => last.status = HTTP_404_NOT_FOUND
          /\ (last.uid # 0 /\ ~roleFails /\ notOwner)
             => last.status = HTTP_403_FORBIDDEN
          /\ (last.status = HTTP_403_FORBIDDEN) => (roleFails \/ notOwner)
          /\ (last.status = HTTP_404_NOT_FOUND) => missing
\* A registration answered 201 added exactly one user, active, with the
\* address and the role of its body, and returned the token pair of that user.
RegisteredOne ==
    \E p \in Procs : \E u \in DOMAIN users' \ DOMAIN users :
        /\ req[p].pc = "register_save"
        /\ req'[p].pc = "idle"
        /\ DOMAIN users' = DOMAIN users \cup {u}
        /\ \A v \in DOMAIN users : users'[v] = users[v]
        /\ users'[u].role = req[p].role
        /\ users'[u].email = req[p].email
        /\ users'[u].is_active
        /\ last'.uid = u
        /\ last'.tokens = {[sub |-> u, kind |-> ACCESS, signed |-> TRUE,
                            exp |-> now + ACCESS_TOKEN_LIFETIME],
                           [sub |-> u, kind |-> REFRESH, signed |-> TRUE,
                            exp |-> now + REFRESH_TOKEN_LIFETIME]}

\* A registration that passed validation goes on to the INSERT with the
\* address and the role of its body.
RegistrationAccepted ==
    \E p \in Procs : /\ req[p].pc = "idle"
                     /\ req'[p].pc = "register_save"
                     /\ req'[p].email = last'.email
                     /\ req'[p].role = last'.role

\* The body of a registration names the address of a stored user or a
\* password_confirm that differs from password.
RegistrationInvalid ==
    \/ \E u \in DOMAIN users : users[u].email = last'.email
    \/ ~last'.password_ok

\* C22 as stated: a registration with the address of a stored user, or with a
\* password_confirm that differs from password, is answered 400, adds no user
\* and returns no token; a registration answered 201 adds exactly one user,
\* with the role its body asked for, and returns an access and a refresh
\* token of that user.
C22_RegistrationContract ==
    [][(Observed' /\ last'.op = "register") =>
          /\ (last'.recv /\ RegistrationInvalid)
             => /\ last'.status = HTTP_400_BAD_REQUEST
                /\ UNCHANGED <<users, req>>
          /\ (last'.recv /\ last'.status = Pending) => RegistrationAccepted
          /\ (last'.status = HTTP_201_CREATED) => RegisteredOne
          /\ (last'.status # HTTP_201_CREATED)
             => /\ UNCHANGED users
                /\ last'.tokens = {}]_vars

\* C22 amended: the same for a registration request that carries no bearer
\* token or one that authenticates; a registration request whose bearer token
\* does not authenticate is answered 401, whatever its body, adds no user and
\* returns no token.
C22_RegistrationContractOfAcceptedToken ==
    [][(Observed' /\ last'.op = "register") =>
          /\ (last'.recv /\ last'.auth \notin {"none", "ok"})
             => /\ last'.status = HTTP_401_UNAUTHORIZED
                /\ UNCHANGED <<users, req>>
          /\ (last'.recv /\ last'.auth \in {"none", "ok"} /\ RegistrationInvalid)
             => /\ last'.status = HTTP_400_BAD_REQUEST
                /\ UNCHANGED <<users, req>>
          /\ (last'.recv /\ last'.auth \in {"none", "ok"} /\ ~RegistrationInvalid)
             => last'.status = Pending
          /\ (last'.recv /\ last'.status = Pending) => RegistrationAccepted
          /\ (last'.status = HTTP_201_CREATED) => RegisteredOne
          /\ (last'.status # HTTP_201_CREATED)
             => /\ UNCHANGED users
                /\ last'.tokens = {}]_vars

\* The address of a stored user is refused with a matching password pair, in
\* a request without a bearer token.
C22_Witness ==
    /\ last.op = "register"
    /\ last.recv
    /\ last.auth = "none"
    /\ last.password_ok
    /\ \E u \in DOMAIN users : users[u].email = last.email
    /\ last.status = HTTP_400_BAD_REQUEST
    /\ last.tokens = {}

\* C23 as stated: a login returns tokens only for the address and the
\* password of an active user: with a wrong password, an address of no user
\* or a deactivated account it is answered 400 without a token, with the right
\* password of an active user it is answered 200 with an access and a refresh
\* token of that user; a login changes no user, startup or interest.
C23_LoginContract ==
    [][(Observed' /\ last'.op = "login") =>
          /\ IF \E u \in DOMAIN users : /\ users[u].email = last'.email
                                        /\ users[u].is_active
                                        /\ last'.password_ok
             THEN /\ last'.status = HTTP_200_OK
                  /\ \E u \in DOMAIN users :
                        /\ users[u].email = last'.email
                        /\ last'.uid = u
                        /\ last'.tokens =
                              {[sub |-> u, kind |-> ACCESS, signed |-> TRUE,
                                exp |-> now + ACCESS_TOKEN_LIFETIME],
                               [sub |-> u, kind |-> REFRESH, signed |-> TRUE,
                                exp |-> now + REFRESH_TOKEN_LIFETIME]}
             ELSE /\ last'.status = HTTP_400_BAD_REQUEST
                  /\ last'.tokens = {}
          /\ UNCHANGED <<users, startups, interests, req>>]_vars

\* C23 amended: the same for a login request that carries no bearer token or
\* one that authenticates; a login request whose bearer token does not
\* authenticate is answered 401, whatever its credentials, without a token;
\* no login changes a user, a startup or an interest.
C23_LoginContractOfAcceptedToken ==
    [][(Observed' /\ last'.op = "login") =>
          /\ IF last'.auth \notin {"none", "ok"}
             THEN /\ last'.status = HTTP_401_UNAUTHORIZED
                  /\ last'.tokens = {}
             ELSE IF \E u \in DOMAIN users : /\ users[u].email = last'.email
                                             /\ users[u].is_active
                                             /\ last'.password_ok
             THEN /\ last'.status = HTTP_200_OK
                  /\ \E u \in DOMAIN users :
                        /\ users[u].email = last'.email
                        /\ last'.uid = u
                        /\ last'.tokens =
                              {[sub |-> u, kind |-> ACCESS, signed |-> TRUE,
                                exp |-> now + ACCESS_TOKEN_LIFETIME],
                               [sub |-> u, kind |-> REFRESH, signed |-> TRUE,
                                exp |-> now + REFRESH_TOKEN_LIFETIME]}
             ELSE /\ last'.status = HTTP_400_BAD_REQUEST
                  /\ last'.tokens = {}
          /\ UNCHANGED <<users, startups, interests, req>>]_vars

\* The right password of a deactivated user is refused, in a request without
\* a bearer token.
C23_Witness ==
    /\ last.op = "login"
    /\ last.auth = "none"
    /\ last.password_ok
    /\ \E u \in DOMAIN users : users[u].email = last.email /\ ~users[u].is_active
    /\ last.status = HTTP_400_BAD_REQUEST
    /\ last.tokens = {}
\* C24: an update through the me operation changes only the profile fields
\* (full_name stands for full_name, bio, skills and avatar_url) of the user
\* who asks: never that user's role, e-mail, id or active flag, never another
\* user; and no request of the API changes the role of a stored user, so every
\* user keeps the role of its registration.
C24_MeUpdateFrame ==
    [][/\ (Observed' /\ last'.op = "me_update")
          => /\ DOMAIN users' = DOMAIN users
             /\ \A u \in DOMAIN users :
                   IF u = last'.uid /\ last'.status = HTTP_200_OK
                   THEN users'[u] = [users[u] EXCEPT
                                        !.full_name = users'[u].full_name]
                   ELSE users'[u] = users[u]
             /\ UNCHANGED <<startups, interests>>
       /\ DOMAIN users \subseteq DOMAIN users'
       /\ \A u \in DOMAIN users : /\ users'[u].role = users[u].role
                                  /\ users'[u].email = users[u].email
                                  /\ users'[u].is_active = users[u].is_active]_vars

\* A user has changed its full name while another user is stored.
C24_Witness ==
    /\ last.op = "me_update"
    /\ last.status = HTTP_200_OK
    /\ Cardinality(DOMAIN users) = MaxUsers
    /\ users[last.uid].full_name = "b"
    /\ \E u \in DOMAIN users : u # last.uid /\ users[u].role # users[last.uid].role
\* C25: the role decision of create-startup is taken before the body is
\* validated: an authenticated TALENT is answered 403 for every body, also one
\* that fails field validation, and never 400.
C25_RoleBeforeValidation ==
    (/\ last.op = "create_startup"
     /\ last.recv
     /\ last.uid # 0
     /\ last.role = TALENT)
    => last.status = HTTP_403_FORBIDDEN
\* The steps of an interest request that hold its guard: the check for an
\* existing interest of create, the fetch of the interest of destroy.
InterestGuards == {"ci_exists", "di_get"}

\* C26: create-interest and delete-interest check the role, then the startup,
\* then the interest: a FOUNDER is answered 403 also for a startup id that is
\* not stored, a TALENT naming a startup that is not stored is answered 404,
\* only a TALENT naming a stored startup reaches the duplicate / missing
\* interest guard, and no rejected request changes an interest row.
C26_InterestCheckOrder ==
    [][/\ \A p \in Procs :
             (req[p].pc \in InterestGuards /\ req'[p] # req[p])
             => /\ users[req[p].uid].role = TALENT
                /\ req[p].sid # NoSuchStartup
       /\ (Observed' /\ last'.op \in InterestWrites) =>
          /\ (last'.recv /\ last'.uid # 0)
             => IF users[last'.uid].role = FOUNDER
                THEN /\ last'.status = HTTP_403_FORBIDDEN
                     /\ UNCHANGED <<interests, req>>
                ELSE IF last'.sid \notin DOMAIN startups
                THEN /\ last'.status = HTTP_404_NOT_FOUND
                     /\ UNCHANGED <<interests, req>>
                ELSE /\ last'.status = Pending
                     /\ UNCHANGED interests
                     /\ \E p \in Procs : /\ req[p].pc = "idle"
                                         /\ req'[p].pc \in InterestGuards
          /\ (last'.status \in {HTTP_400_BAD_REQUEST, HTTP_401_UNAUTHORIZED,
                                HTTP_403_FORBIDDEN, HTTP_404_NOT_FOUND})
             => UNCHANGED interests]_vars

\* A FOUNDER asks for an interest in a startup id that is not stored.
C26_Witness ==
    /\ last.op \in InterestWrites
    /\ last.recv
    /\ last.uid # 0
    /\ users[last.uid].role = FOUNDER
    /\ last.sid \notin DOMAIN startups
    /\ last.status = HTTP_403_FORBIDDEN
\* C27: after every step every interest row refers to a stored startup and a
\* stored user, and the step in which a delete-startup request removes the
\* startup removes every interest in it, also when a create-interest request
\* for that startup is in flight.
C27_InterestsReferToStoredRows ==
    [][/\ \A i \in interests' : /\ i.startup \in DOMAIN startups'
                                /\ i.user \in DOMAIN users'
       /\ \A p \in Procs :
             (req[p].pc = "delete_startup" /\ req'[p].pc = "idle")
             => /\ req[p].sid \notin DOMAIN startups'
                /\ \A i \in interests' : i.startup # req[p].sid
                /\ \A i \in interests : i.startup # req[p].sid => i \in interests']_vars

\* A create-interest request lost its startup to a delete-startup request
\* while it was in flight, and its INSERT was refused.
C27_Witness ==
    /\ last.op = "create_interest"
    /\ ~last.recv
    /\ last.status = HTTP_500_INTERNAL_SERVER_ERROR
    /\ last.sid # NoSuchStartup
    /\ last.sid \notin DOMAIN startups
    /\ \A i \in interests : i.startup \in DOMAIN startups
\* The steps of the interest requests after the one that received them.
InterestSteps == {"ci_exists", "ci_lookup", "ci_save", "di_get", "di_delete"}

C29_OwnersAreFounders ==
    \A s \in DOMAIN startups :
        /\ startups[s].owner \in DOMAIN users
        /\ users[startups[s].owner].role = FOUNDER

\* The owner of a stored startup has updated its own record with a body that
\* the server accepted, and a TALENT is stored too.
C29_Witness ==
    /\ last.op = "me_update"
    /\ last.status = HTTP_200_OK
    /\ \E s \in DOMAIN startups : startups[s].owner = last.uid
    /\ \E u \in DOMAIN users : users[u].role = TALENT

\* C30: in every state reached through the operations of the API, the user of
\* every stored interest is a stored user whose role is TALENT, and so no
\* interest is held by the owner of its startup.
C30_InterestedAreTalents ==
    \A i \in interests :
        /\ i.user \in DOMAIN users
        /\ users[i.user].role = TALENT
        /\ i.startup \in DOMAIN startups => startups[i.startup].owner # i.user

\* A user that holds an interest has updated its own record with a body that
\* the server accepted.
C30_Witness ==
    /\ last.op = "me_update"
    /\ last.status = HTTP_200_OK
    /\ \E i \in interests : /\ i.user = last.uid
                            /\ i.startup \in DOMAIN startups
====
